---- MODULE Spec2Model ----
(***************************************************************************)
(* A state-machine model of zone_cluster_v2.py: one run of main(), from    *)
(* the parsed arguments and the table read by pd.read_csv to the written   *)
(* artifacts or the error that ends the run.                               *)
(*                                                                         *)
(* Floats are tagged pairs: <<"num", x>> is the number x (degrees), and    *)
(* <<"nan", 0>> is float("nan").  Silhouette scores are in hundredths.     *)
(* sklearn's KMeans and silhouette_score are library code: the model keeps *)
(* their documented contract (which inputs raise, how many distinct labels *)
(* a fit produces) and leaves the choice of labeling and of score open.    *)
(***************************************************************************)
EXTENDS Integers, Sequences, FiniteSets, TLC

\* Bounds of the model: rows in the input table, and the largest --kmin/--kmax.
MaxRows == 3
MaxK == 3

----------------------------------------------------------------------------
\* Floats and coordinates

Num(x) == <<"num", x>>
NaN == <<"nan", 0>>
Absent == <<"absent", 0>>

IsNum(v) == v[1] = "num"
\* pandas isna(): NaN (and None) count as missing
IsNa(v) == v[1] # "num"

Pt(la, lo) == [lat |-> la, lon |-> lo]

\* the failure sentinel appended when a provider has no candidate
Sentinel == Pt(NaN, NaN)

PtA == Pt(Num(40), Num(-75))
PtB == Pt(Num(41), Num(-75))
PtC == Pt(Num(40), Num(-74))
PtFar == Pt(Num(200), Num(-75))
PtNaN == Pt(NaN, Num(-75))

\* coordinates a row of the input CSV may carry in its lat, lon columns
CsvPointSeq == <<PtA, PtB, PtC, PtFar, PtNaN>>
\* locations a provider may answer with
ProviderPoints == {PtA, PtB}

\* the ResolvedPoint invariant of the data model: finite and in range
ValidPoint(p) ==
    /\ IsNum(p.lat) /\ p.lat[2] >= -90 /\ p.lat[2] <= 90
    /\ IsNum(p.lon) /\ p.lon[2] >= -180 /\ p.lon[2] <= 180

----------------------------------------------------------------------------
\* Command line and input table

Providers == {"opencage", "geoapify", "google"}
Geocoders == Providers \cup {"qgis"}

BaseColumns == {"name", "address"}
CoordColumns == {"lat", "lon"}

\* a table row: id stands for the row's own fields (name, address, ...)
Row(i, p) == [id |-> i, lat |-> p.lat, lon |-> p.lon]
RowPoint(r) == Pt(r.lat, r.lon)

\* tables of n rows with lat, lon columns, and without them; no step of the
\* run depends on where in the table a coordinate stands, so the tables
\* with coordinates are enumerated up to the order of their coordinates
TablesWithCoords(n) ==
    {[i \in 1..n |-> Row(i, CsvPointSeq[f[i]])] :
        f \in {g \in [1..n -> DOMAIN CsvPointSeq] :
                  \A i, j \in 1..n : i < j => g[i] <= g[j]}}
TableWithoutCoords(n) == [i \in 1..n |-> Row(i, Pt(Absent, Absent))]

VARIABLES
    geocoder,        \* args.geocoder
    keys,            \* keys dict: provider -> TRUE when a non-empty key is set
    make_google_map, \* args.make_google_map
    kmin, kmax,      \* args.kmin, args.kmax
    columns,         \* df.columns of the table read from --input
    rows,            \* the table read from --input
    pc,              \* position of the run
    err,             \* how the run failed: "none", or the kind of error
    queries,         \* geocode_df: the assembled queries (row ids)
    http,            \* every urlopen call issued, in order (query ids)
    responses,       \* what the provider answered to each call, in order
    coords,          \* the provider loop's out list
    slept,           \* every time.sleep(delay) done, in order (tenths of s)
    df,              \* the working table of main
    k,               \* choose_best_k: the loop variable
    best_k,          \* choose_best_k: best_k
    best_score,      \* choose_best_k: best_score (hundredths)
    nlabels,         \* choose_best_k: k -> len(set(labels)) of each fit done
    scored,          \* choose_best_k: k -> silhouette score of each scored fit
    chosen,          \* main: k as returned by choose_best_k (0 before)
    zone,            \* main: df["zone"], row index -> label
    centers,         \* main: centers["zone"]
    files,           \* artifacts written so far
    leaflet_hulls,   \* make_folium_map: zone -> the GeoJson layer of its hull
    google_hulls     \* make_google_maps_html: hulls_js, zone -> its path

vars == <<geocoder, keys, make_google_map, kmin, kmax, columns, rows, pc, err,
          queries, http, responses, coords, slept, df, k, best_k, best_score,
          nlabels, scored, chosen, zone, centers, files, leaflet_hulls,
          google_hulls>>

args == <<geocoder, keys, make_google_map, kmin, kmax, columns, rows>>
resolver == <<queries, http, responses, coords, slept>>
selector == <<k, best_k, best_score, nlabels, scored>>
outputs == <<files, leaflet_hulls, google_hulls>>

----------------------------------------------------------------------------
\* Geocoding helpers

\* assemble_query: the query of a row, standing for the text built from it
AssembleQuery(r) == r.id

\* the keys a run can read: the selected provider's, and the Google key
\* when the Google page is asked for; the others are left unset
KeyIsRead(p, g, gmap) == p = g \/ (gmap /\ p = "google")

\* a key check that lets every key through
CredentialNeverAbsent(api_key) == FALSE
\* "if not api_key": None and "" both count as no key
CredentialAbsent(api_key) == ~api_key

\* every adapter pausing for the same 1.1 s
DelaySameForAll(g) == 11
\* the delay argument each adapter is called with, in tenths of a second
Delay(g) == CASE g = "opencage" -> 11
              [] g = "geoapify" -> 11
              [] g = "google" -> 2

\* what a provider can answer to one request: a first candidate at a
\* location, no candidate, or a transport/parse fault inside _http_json
Answers == {[kind |-> "found", pt |-> p] : p \in ProviderPoints}
           \cup {[kind |-> "empty", pt |-> Sentinel],
                 [kind |-> "fault", pt |-> Sentinel]}

\* the candidate list of the provider's JSON body, in the provider's shape
Payload(g, ans) ==
    IF ans.kind # "found" THEN <<>>
    ELSE CASE g = "opencage" -> <<[lat |-> ans.pt.lat, lng |-> ans.pt.lon]>>
           [] g = "geoapify" -> <<<<ans.pt.lon, ans.pt.lat>>>>
           [] g = "google" -> <<[lat |-> ans.pt.lat, lng |-> ans.pt.lon]>>

\* the (lat, lon) tuple each adapter appends for a JSON body
ParseResult(g, body) ==
    IF body = <<>> THEN Sentinel
    ELSE CASE g = "opencage" -> Pt(body[1].lat, body[1].lng)
           [] g = "geoapify" -> Pt(body[1][2], body[1][1])
           [] g = "google" -> Pt(body[1].lat, body[1].lng)

\* out["lat"], out["lon"] = lats, lons
Attach(t, cs) == [i \in 1..Len(t) |-> [id |-> t[i].id, lat |-> cs[i].lat, lon |-> cs[i].lon]]

\* a dropna that drops nothing
KeepEveryRow(r) == TRUE
\* dropna(subset=["lat","lon"]) keeps a row when neither is missing
KeepRow(r) == ~IsNa(r.lat) /\ ~IsNa(r.lon)
\* out.dropna(subset=["lat","lon"]).reset_index(drop=True)
DropNa(t) == SelectSeq(t, KeepRow)

\* a pass-through that filters the rows it was given
PassThroughDropsNa(t) == DropNa(t)
\* df.copy() on the pass-through path
PassThrough(t) == t

----------------------------------------------------------------------------
\* Clustering helpers

InitBestScore == -100
\* values silhouette_score can return, in hundredths: the mean silhouette
\* of a labeling with at least two labels is above -1
ScoreVals == {-50, 50}

\* a comparison that lets a tie replace the best
BetterOrEqual(score, best) == score >= best
\* if score > best_score
Better(score, best) == score > best

Range(f) == {f[i] : i \in DOMAIN f}
Min(a, b) == IF a < b THEN a ELSE b

\* df[["lat","lon"]].to_numpy()
Matrix(t) == [i \in 1..Len(t) |-> RowPoint(t[i])]

Finite(X) == \A i \in DOMAIN X : IsNum(X[i].lat) /\ IsNum(X[i].lon)

\* KMeans(n_clusters=kk).fit_predict(X) raises ValueError on an invalid
\* n_clusters, on NaN or infinity in X, and on fewer samples than clusters
KMeansRaises(X, kk) == kk < 1 \/ ~Finite(X) \/ Len(X) < kk

\* the labelings fit_predict can return: 0-based, equal points share a
\* label, and as many distinct labels as there are clusters to fill
KMeansLabelings(X, kk) ==
    {f \in [DOMAIN X -> 0..(kk - 1)] :
        /\ \A i, j \in DOMAIN X : X[i] = X[j] => f[i] = f[j]
        /\ Cardinality(Range(f)) = Min(kk, Cardinality(Range(X)))}

\* silhouette_score raises ValueError unless 2 <= n_labels <= n_samples - 1
SilhouetteRaises(n, nl) == nl < 2 \/ nl > n - 1

\* labels left 0-based
ZoneLabelZeroBased(l) == l
\* km.fit_predict(X) + 1
ZoneLabel(l) == l + 1

\* centers["zone"] = range(1, k+1)
CenterZones(kk) == 1..kk

----------------------------------------------------------------------------
\* Hulls

Collinear(p, q, r) ==
    (q[1] - p[1]) * (r[2] - p[2]) = (q[2] - p[2]) * (r[1] - p[1])

\* geom_type of MultiPoint(pts).convex_hull for a set of (x, y) pairs
HullType(P) ==
    IF Cardinality(P) = 1 THEN "Point"
    ELSE IF \A p, q, r \in P : Collinear(p, q, r) THEN "LineString"
    ELSE "Polygon"

Cross(o, a, b) == (a[1] - o[1]) * (b[2] - o[2]) - (a[2] - o[2]) * (b[1] - o[1])
\* p lies strictly between a and b on their segment
Between(p, a, b) ==
    /\ Cross(p, a, b) = 0
    /\ (a[1] - p[1]) * (b[1] - p[1]) + (a[2] - p[2]) * (b[2] - p[2]) < 0
\* p lies in or on the triangle a, b, c
InTriangle(p, a, b, c) ==
    /\ Cross(a, b, c) # 0
    /\ \/ (Cross(a, b, p) >= 0 /\ Cross(b, c, p) >= 0 /\ Cross(c, a, p) >= 0)
       \/ (Cross(a, b, p) <= 0 /\ Cross(b, c, p) <= 0 /\ Cross(c, a, p) <= 0)

\* the coordinates of MultiPoint(pts).convex_hull, as a set of (x, y) pairs:
\* the points that are on no segment and in no triangle of the others
HullVertices(P) ==
    {p \in P :
        /\ ~\E a, b \in P \ {p} : Between(p, a, b)
        /\ ~\E a, b, c \in P \ {p} : InTriangle(p, a, b, c)}

\* df.groupby("zone"): the labels that have members, and a zone's rows
Zones(z) == Range(z)
Members(z, lab) == {i \in DOMAIN z : z[i] = lab}

\* make_folium_map builds Point(lat, lon)
FoliumPoints(t, z, lab) == {<<t[i].lat[2], t[i].lon[2]>> : i \in Members(z, lab)}
\* make_google_maps_html selects the columns as ["lon","lat"] and builds
\* Point(yx[1], yx[0]): x is the latitude and y the longitude here too
GooglePoints(t, z, lab) == {<<t[i].lat[2], t[i].lon[2]>> : i \in Members(z, lab)}

\* the GeoJson layers of the Leaflet map: one per zone, whatever the hull
FoliumHulls(t, z) ==
    [lab \in Zones(z) |->
        [type |-> HullType(FoliumPoints(t, z, lab)),
         coordinates |-> HullVertices(FoliumPoints(t, z, lab))]]

\* if hull.geom_type == "Polygon"
GoogleKeeps(h) == h = "Polygon"
\* one entry of hulls_js: each (x, y) of the hull is unpacked as (lon, lat)
\* and written as {"lat": lat, "lng": lon}
GooglePath(V) == {[lat |-> v[2], lng |-> v[1]] : v \in V}
\* hulls_js of the Google page: the zones kept, each with its path
GoogleHulls(t, z) ==
    [lab \in {l \in Zones(z) : GoogleKeeps(HullType(GooglePoints(t, z, l)))} |->
        [type |-> HullType(GooglePoints(t, z, lab)),
         path |-> GooglePath(HullVertices(GooglePoints(t, z, lab)))]]

----------------------------------------------------------------------------
\* The run of main()

Init ==
    /\ geocoder \in Geocoders
    /\ make_google_map \in BOOLEAN
    /\ keys \in [Providers -> BOOLEAN]
    /\ \A p \in Providers : keys[p] => KeyIsRead(p, geocoder, make_google_map)
    /\ kmin \in 1..MaxK
    /\ kmax \in 1..MaxK
    /\ \E n \in 0..MaxRows :
          \/ /\ columns = BaseColumns \cup CoordColumns
             /\ rows \in TablesWithCoords(n)
          \/ /\ columns = BaseColumns
             /\ rows = TableWithoutCoords(n)
    /\ pc = "start"
    /\ err = "none"
    /\ queries = <<>>
    /\ http = <<>>
    /\ responses = <<>>
    /\ coords = <<>>
    /\ slept = <<>>
    /\ df = <<>>
    /\ k = 0
    /\ best_k = 0
    /\ best_score = InitBestScore
    /\ nlabels = <<>>
    /\ scored = <<>>
    /\ chosen = 0
    /\ zone = <<>>
    /\ centers = {}
    /\ files = {}
    /\ leaflet_hulls = <<>>
    /\ google_hulls = <<>>

\* raise SystemExit(...): the run ends with a one-line diagnostic
Fatal(kind) == pc' = "fatal" /\ err' = kind
\* an exception nobody catches: the run ends with a traceback
Crash(kind) == pc' = "crash" /\ err' = kind

\* geocode_df, lat and lon both among the columns: return df.copy()
GeocodeSkipped ==
    /\ pc = "start"
    /\ CoordColumns \subseteq columns
    /\ df' = PassThrough(rows)
    /\ pc' = "check_empty"
    /\ UNCHANGED <<args, err, resolver, selector, chosen, zone, centers, outputs>>

\* geocode_df calling a live adapter, which finds no key before its loop
GeocodeNoKey ==
    /\ pc = "start"
    /\ ~(CoordColumns \subseteq columns)
    /\ geocoder \in Providers
    /\ CredentialAbsent(keys[geocoder])
    /\ queries' = [i \in 1..Len(rows) |-> AssembleQuery(rows[i])]
    /\ Fatal("config")
    /\ UNCHANGED <<args, http, responses, coords, slept, df, selector, chosen,
                   zone, centers, outputs>>

\* geocode_df with the qgis stub selected
GeocodeStub ==
    /\ pc = "start"
    /\ ~(CoordColumns \subseteq columns)
    /\ geocoder = "qgis"
    /\ queries' = [i \in 1..Len(rows) |-> AssembleQuery(rows[i])]
    /\ Fatal("config")
    /\ UNCHANGED <<args, http, responses, coords, slept, df, selector, chosen,
                   zone, centers, outputs>>

\* geocode_df calling a live adapter that has its key: out = []
GeocodeBegin ==
    /\ pc = "start"
    /\ ~(CoordColumns \subseteq columns)
    /\ geocoder \in Providers
    /\ ~CredentialAbsent(keys[geocoder])
    /\ queries' = [i \in 1..Len(rows) |-> AssembleQuery(rows[i])]
    /\ pc' = "send"
    /\ UNCHANGED <<args, err, http, responses, coords, slept, df, selector,
                   chosen, zone, centers, outputs>>

\* the adapter's loop takes the next query and calls urlopen
SendRequest ==
    /\ pc = "send"
    /\ Len(coords) < Len(queries)
    /\ http' = Append(http, queries[Len(coords) + 1])
    /\ pc' = "recv"
    /\ UNCHANGED <<args, err, queries, responses, coords, slept, df, selector,
                   chosen, zone, centers, outputs>>

\* _http_json returns a body, which the adapter parses and appends
ReceiveResult ==
    /\ pc = "recv"
    /\ \E ans \in Answers :
          /\ ans.kind # "fault"
          /\ responses' = Append(responses, ans)
          /\ coords' = Append(coords, ParseResult(geocoder, Payload(geocoder, ans)))
    /\ pc' = "sleep"
    /\ UNCHANGED <<args, err, queries, http, slept, df, selector, chosen, zone,
                   centers, outputs>>

\* _http_json raises (URLError, JSONDecodeError, ...): no handler anywhere
ReceiveFault ==
    /\ pc = "recv"
    /\ \E ans \in Answers :
          /\ ans.kind = "fault"
          /\ responses' = Append(responses, ans)
    /\ Crash("fault")
    /\ UNCHANGED <<args, queries, http, coords, slept, df, selector, chosen,
                   zone, centers, outputs>>

\* time.sleep(delay) at the end of the loop body
Sleep ==
    /\ pc = "sleep"
    /\ slept' = Append(slept, Delay(geocoder))
    /\ pc' = "send"
    /\ UNCHANGED <<args, err, queries, http, responses, coords, df, selector,
                   chosen, zone, centers, outputs>>

\* the adapter returns out; geocode_df attaches it and drops the NaN rows
GeocodeReturn ==
    /\ pc = "send"
    /\ Len(coords) = Len(queries)
    /\ df' = DropNa(Attach(rows, coords))
    /\ pc' = "check_empty"
    /\ UNCHANGED <<args, err, resolver, selector, chosen, zone, centers, outputs>>

\* main: if df.empty: raise SystemExit
EmptyResolvedSet ==
    /\ pc = "check_empty"
    /\ df = <<>>
    /\ Fatal("empty")
    /\ UNCHANGED <<args, resolver, df, selector, chosen, zone, centers, outputs>>

\* main calls choose_best_k: best_k, best_score = kmin, -1
ChooseBegin ==
    /\ pc = "check_empty"
    /\ df # <<>>
    /\ k' = kmin
    /\ best_k' = kmin
    /\ best_score' = InitBestScore
    /\ pc' = "select"
    /\ UNCHANGED <<args, err, resolver, df, nlabels, scored, chosen, zone,
                   centers, outputs>>

\* one candidate whose fit or whose scoring raises ValueError
CandidateRaises ==
    /\ pc = "select"
    /\ k <= kmax
    /\ \/ KMeansRaises(Matrix(df), k)
       \/ /\ ~KMeansRaises(Matrix(df), k)
          /\ \E labels \in KMeansLabelings(Matrix(df), k) :
                /\ Cardinality(Range(labels)) # 1
                /\ SilhouetteRaises(Len(df), Cardinality(Range(labels)))
    /\ Crash("value")
    /\ UNCHANGED <<args, resolver, df, selector, chosen, zone, centers, outputs>>

\* one candidate whose partition has a single label: continue
CandidateDegenerate ==
    /\ pc = "select"
    /\ k <= kmax
    /\ ~KMeansRaises(Matrix(df), k)
    /\ \E labels \in KMeansLabelings(Matrix(df), k) :
          /\ Cardinality(Range(labels)) = 1
          /\ nlabels' = nlabels @@ (k :> 1)
    /\ k' = k + 1
    /\ UNCHANGED <<args, pc, err, resolver, df, best_k, best_score, scored,
                   chosen, zone, centers, outputs>>

\* one candidate that is scored, and kept when its score is better
CandidateScored ==
    /\ pc = "select"
    /\ k <= kmax
    /\ ~KMeansRaises(Matrix(df), k)
    /\ \E labels \in KMeansLabelings(Matrix(df), k) :
          /\ Cardinality(Range(labels)) # 1
          /\ ~SilhouetteRaises(Len(df), Cardinality(Range(labels)))
          /\ nlabels' = nlabels @@ (k :> Cardinality(Range(labels)))
    /\ \E score \in ScoreVals :
          /\ scored' = scored @@ (k :> score)
          /\ IF Better(score, best_score)
             THEN best_k' = k /\ best_score' = score
             ELSE UNCHANGED <<best_k, best_score>>
    /\ k' = k + 1
    /\ UNCHANGED <<args, pc, err, resolver, df, chosen, zone, centers, outputs>>

\* choose_best_k: the range is exhausted, return best_k
ChooseReturn ==
    /\ pc = "select"
    /\ k > kmax
    /\ chosen' = best_k
    /\ pc' = "assign"
    /\ UNCHANGED <<args, err, resolver, df, selector, zone, centers, outputs>>

\* main: the final fit at the chosen k raises ValueError
AssignRaises ==
    /\ pc = "assign"
    /\ KMeansRaises(Matrix(df), chosen)
    /\ Crash("value")
    /\ UNCHANGED <<args, resolver, df, selector, chosen, zone, centers, outputs>>

\* main: df["zone"] = km.fit_predict(X) + 1, and the centers table
AssignZones ==
    /\ pc = "assign"
    /\ ~KMeansRaises(Matrix(df), chosen)
    /\ \E labels \in KMeansLabelings(Matrix(df), chosen) :
          zone' = [i \in DOMAIN labels |-> ZoneLabel(labels[i])]
    /\ centers' = CenterZones(chosen)
    /\ pc' = "csv"
    /\ UNCHANGED <<args, err, resolver, df, selector, chosen, outputs>>

\* main: df.sort_values(...).to_csv
WriteCsv ==
    /\ pc = "csv"
    /\ files' = files \cup {"csv"}
    /\ pc' = "xlsx"
    /\ UNCHANGED <<args, err, resolver, df, selector, chosen, zone, centers,
                   leaflet_hulls, google_hulls>>

\* main: export_excel
ExportExcel ==
    /\ pc = "xlsx"
    /\ files' = files \cup {"xlsx"}
    /\ pc' = "leaflet"
    /\ UNCHANGED <<args, err, resolver, df, selector, chosen, zone, centers,
                   leaflet_hulls, google_hulls>>

\* main: make_folium_map, one GeoJson layer per zone, then m.save
MakeFoliumMap ==
    /\ pc = "leaflet"
    /\ leaflet_hulls' = FoliumHulls(df, zone)
    /\ files' = files \cup {"leaflet"}
    /\ pc' = "gmap"
    /\ UNCHANGED <<args, err, resolver, df, selector, chosen, zone, centers,
                   google_hulls>>

\* main: --make-google-map not given
NoGoogleMap ==
    /\ pc = "gmap"
    /\ ~make_google_map
    /\ pc' = "done"
    /\ UNCHANGED <<args, err, resolver, df, selector, chosen, zone, centers, outputs>>

\* main: --make-google-map given without a Google key
GoogleMapNoKey ==
    /\ pc = "gmap"
    /\ make_google_map
    /\ CredentialAbsent(keys["google"])
    /\ Fatal("config")
    /\ UNCHANGED <<args, resolver, df, selector, chosen, zone, centers, outputs>>

\* main: make_google_maps_html writes the page
MakeGoogleMapsHtml ==
    /\ pc = "gmap"
    /\ make_google_map
    /\ ~CredentialAbsent(keys["google"])
    /\ google_hulls' = GoogleHulls(df, zone)
    /\ files' = files \cup {"gmap"}
    /\ pc' = "done"
    /\ UNCHANGED <<args, err, resolver, df, selector, chosen, zone, centers,
                   leaflet_hulls>>

Next ==
    \/ GeocodeSkipped
    \/ GeocodeNoKey
    \/ GeocodeStub
    \/ GeocodeBegin
    \/ SendRequest
    \/ ReceiveResult
    \/ ReceiveFault
    \/ Sleep
    \/ GeocodeReturn
    \/ EmptyResolvedSet
    \/ ChooseBegin
    \/ CandidateRaises
    \/ CandidateDegenerate
    \/ CandidateScored
    \/ ChooseReturn
    \/ AssignRaises
    \/ AssignZones
    \/ WriteCsv
    \/ ExportExcel
    \/ MakeFoliumMap
    \/ NoGoogleMap
    \/ GoogleMapNoKey
    \/ MakeGoogleMapsHtml

Spec == Init /\ [][Next]_vars

----------------------------------------------------------------------------
\* Properties

HasCoordColumns == CoordColumns \subseteq columns
Geocoded == ~HasCoordColumns
\* the selected variant is the stub, or a live one whose key is not set
NoCredential == geocoder = "qgis" \/ (geocoder \in Providers /\ keys[geocoder] = FALSE)
Ended == pc \in {"done", "fatal", "crash"}
ConfigFailure == pc = "fatal" /\ err = "config" /\ http = <<>>
Labeled == zone # <<>>
AllValid == \A i \in DOMAIN df : ValidPoint(RowPoint(df[i]))
\* the run is at, or has been through, the partitioning step
Partitioning == pc \in {"select", "assign", "csv", "xlsx", "leaflet", "gmap", "done"}
                \/ (pc = "crash" /\ err = "value")
                \/ (pc = "fatal" /\ files # {})
Found == {i \in DOMAIN responses : responses[i].kind = "found"}

\* C1 as stated: a run whose selected variant has no credential (or is the
\* stub) ends in a fatal configuration error with no HTTP request issued.
C1_Original == (NoCredential /\ Ended) => ConfigFailure

\* C1, amended: when the input table lacks a coordinate column, a run whose
\* selected variant has no credential (or is the stub) fails with a fatal
\* configuration error as its first step, with no HTTP request issued, no
\* table resolved and nothing written.
C1_Amended ==
    (NoCredential /\ Geocoded) =>
        \/ pc = "start"
        \/ (ConfigFailure /\ responses = <<>> /\ df = <<>> /\ files = {})

C1_Witness ==
    /\ geocoder \in Providers /\ keys[geocoder] = FALSE
    /\ Geocoded /\ Len(queries) >= 2
    /\ pc = "fatal" /\ err = "config"

\* C2: a fault on one query makes that query's result the failure sentinel
\* and leaves the batch running: the fault ends no run, and the result list
\* holds the sentinel at the faulted query's place.
C2_Claim ==
    /\ err # "fault"
    /\ \A i \in DOMAIN responses :
          responses[i].kind = "fault" => (i \in DOMAIN coords /\ coords[i] = Sentinel)

\* C3: a run that ends in a fatal error has written no output artifact.
C3_Claim == pc = "fatal" => files = {}

NonDegenerate == {c \in DOMAIN nlabels : nlabels[c] # 1}
C4_Selection ==
    /\ DOMAIN nlabels = kmin..kmax
    /\ DOMAIN scored = NonDegenerate
    /\ IF NonDegenerate = {}
       THEN chosen = kmin
       ELSE /\ chosen \in NonDegenerate
            /\ \A c \in NonDegenerate : scored[c] <= scored[chosen]
            /\ \A c \in NonDegenerate : scored[c] = scored[chosen] => chosen <= c

\* C4 as stated: choose_best_k returns the lowest k among the non-degenerate
\* candidates of maximum score, scores no degenerate candidate, returns kmin
\* when all are degenerate, and its result is always within [kmin, kmax].
C4_Original == pc = "assign" => (C4_Selection /\ chosen \in kmin..kmax)

\* C4, amended: as stated, except that the result is within [kmin, kmax]
\* when kmin <= kmax; on an empty range (kmin > kmax) it is kmin.
C4_Amended ==
    pc = "assign" =>
        /\ C4_Selection
        /\ (kmin <= kmax => chosen \in kmin..kmax)
        /\ (kmin > kmax => chosen = kmin)

C4_Witness ==
    /\ pc = "assign"
    /\ \E c \in DOMAIN nlabels : nlabels[c] = 1
    /\ \E c, d \in DOMAIN scored : c < d /\ scored[c] = scored[d] /\ chosen = c

\* C5 as stated: for a k returned over a range kmin <= kmax, the labeling
\* uses exactly the labels {1..k}, each with a member, and every point has
\* exactly one label.
C5_Original ==
    (Labeled /\ kmin <= kmax) => (DOMAIN zone = DOMAIN df /\ Zones(zone) = 1..chosen)

\* C5, amended: every point has exactly one label, the labels lie in {1..k},
\* and as many of them are used as there are clusters to fill, the smaller
\* of k and the number of distinct coordinates: with at least k distinct
\* coordinates the label set is exactly {1..k}, each label with a member;
\* the centroid table carries the labels {1..k} in either case.
DistinctPoints == {RowPoint(df[i]) : i \in DOMAIN df}
C5_Amended ==
    Labeled =>
        /\ DOMAIN zone = DOMAIN df
        /\ Zones(zone) \subseteq 1..chosen
        /\ \A lab \in Zones(zone) : Members(zone, lab) # {}
        /\ IF Cardinality(DistinctPoints) >= chosen
           THEN Zones(zone) = 1..chosen
           ELSE Cardinality(Zones(zone)) = Cardinality(DistinctPoints)
        /\ centers = 1..chosen

C5_Witness ==
    /\ Labeled
    /\ kmin <= kmax
    /\ chosen = 2
    /\ Len(df) = 3
    /\ Cardinality(DistinctPoints) = 3
    /\ Zones(zone) = {1, 2}

\* C6: no record with a non-finite or out-of-range coordinate is clustered:
\* a run in which one reaches the partitioning step ends in a fatal error.
C6_Claim == Labeled => AllValid

\* C7: with both coordinate columns in the input, geocode_df assembles no
\* query, issues no HTTP request, and returns the input records, all of
\* them, in the original order, whatever the provider and its key.
C7_PassThrough ==
    (HasCoordColumns /\ pc # "start") =>
        /\ queries = <<>>
        /\ http = <<>>
        /\ responses = <<>>
        /\ df = rows

C7_Witness ==
    /\ HasCoordColumns
    /\ pc = "check_empty"
    /\ NoCredential
    /\ \E i, j \in DOMAIN rows : IsNa(rows[i].lat) /\ ValidPoint(RowPoint(rows[j]))

\* C8: when geocoding is performed, the resolved table is the input records
\* whose query found a candidate, in input order, each with the coordinate
\* its own query was answered with; a query without candidate raises no
\* error; and the partitioning step is reached only with a surviving
\* record, the run failing with the empty-set error otherwise.
C8_Resolved ==
    /\ (Geocoded /\ pc = "check_empty") =>
          /\ err = "none"
          /\ Len(responses) = Len(rows)
          /\ {df[j].id : j \in DOMAIN df} = {rows[i].id : i \in Found}
          /\ \A i, j \in DOMAIN df : i < j => df[i].id < df[j].id
          /\ \A j \in DOMAIN df : RowPoint(df[j]) = responses[df[j].id].pt
    /\ (Geocoded /\ err = "empty") =>
          /\ pc = "fatal"
          /\ Len(responses) = Len(rows)
          /\ Found = {}
          /\ nlabels = <<>> /\ chosen = 0
    /\ (Geocoded /\ Partitioning) => (Found # {} /\ df # <<>>)

C8_Witness ==
    /\ Geocoded
    /\ pc = "check_empty"
    /\ geocoder = "geoapify"
    /\ \E i, j \in DOMAIN responses :
          /\ i < j
          /\ responses[i].kind = "empty"
          /\ responses[j].kind = "found"
    /\ Len(df) < Len(rows)
    /\ Len(df) >= 1

\* the adapters' pauses, in tenths of a second: 1.1 s, 1.1 s and 0.2 s
FixedDelay == [opencage |-> 11, geoapify |-> 11, google |-> 2]

\* C9: a live variant issues one request per query, in input order; while
\* request i is in flight exactly i-1 results have been appended and i-1
\* pauses of the variant's delay taken; and when it returns it has issued
\* as many requests as there are queries and returns as many results.
C9_Sequential ==
    /\ Len(http) <= Len(rows)
    /\ \A i \in DOMAIN http : http[i] = rows[i].id
    /\ pc = "recv" => (Len(coords) = Len(http) - 1 /\ Len(slept) = Len(http) - 1)
    /\ pc = "sleep" => (Len(coords) = Len(http) /\ Len(slept) = Len(http) - 1)
    /\ pc = "send" => (Len(coords) = Len(http) /\ Len(slept) = Len(http))
    /\ \A j \in DOMAIN slept : slept[j] = FixedDelay[geocoder]
    /\ (Geocoded /\ pc = "check_empty") =>
          /\ Len(http) = Len(rows)
          /\ Len(coords) = Len(rows)
          /\ Len(slept) = Len(rows)

C9_Witness ==
    /\ Geocoded
    /\ pc = "check_empty"
    /\ geocoder = "google"
    /\ Len(http) >= 2
    /\ Len(coords) = Len(http)

\* C10: every zone label that has member points has a boundary in each map
\* written, a degenerate one (point, segment) included.
C10_Claim ==
    /\ "leaflet" \in files => DOMAIN leaflet_hulls = Zones(zone)
    /\ "gmap" \in files => DOMAIN google_hulls = Zones(zone)

====
